---- MODULE Spec2Model ----
(***************************************************************************)
(* A model of the HTTP server of codecrafters-http-server-rust.            *)
(*                                                                         *)
(*   - http_request.rs : parse (request line, headers, fixed-length body)  *)
(*   - http_response.rs: send (status line, negotiation, compression,      *)
(*                       default headers, header block, body)              *)
(*   - main.rs         : accept loop, one thread per connection,           *)
(*                       parse_request, handle_request, send_response      *)
(*                                                                         *)
(* Bytes are modelled as one-character strings; "<FF>" stands for a byte   *)
(* that can not occur in valid UTF-8.  A string is a sequence of bytes.    *)
(***************************************************************************)
EXTENDS Integers, Sequences, FiniteSets, TLC

VARIABLES
    \* http_request::parse
    stream,            \* the bytes the peer sends on the connection
    stream_end,        \* how the byte stream ends: "eof" or "reset" (I/O error)
    pos,               \* number of bytes the reader has consumed
    ppc,               \* position inside parse
    request,           \* the HttpRequest under construction
    perr,              \* which step of parse failed ("" while none did)
    \* http_response::send
    request_headers,   \* the headers of the request that is answered
    handler_response,  \* the HttpResponse as the handler built it
    response,          \* the HttpResponse as send has changed it so far
    content_encoding,  \* the ContentEncoding send negotiated
    spc,               \* position inside send
    wire,              \* the pieces written on the stream, in order
    \* main.rs
    main_pc,           \* position of the main thread
    FILES_DIRECTORY,   \* the OnceLock holding the --directory argument
    accept_errors,     \* failed accepts the accept loop has logged
    conns              \* per connection: its stream and the state of its thread

parse_vars == <<stream, stream_end, pos, ppc, request, perr>>
send_vars == <<request_headers, handler_response, response, content_encoding, spc, wire>>
main_vars == <<main_pc, FILES_DIRECTORY, accept_errors, conns>>
vars == <<parse_vars, send_vars, main_vars>>

(***************************************************************************)
(* Bytes and strings                                                       *)
(***************************************************************************)
BAD == "<FF>"
CR == "\r"
LF == "\n"
CRLF == <<CR, LF>>
SP == <<" ">>
COLON_SP == <<":", " ">>
GET == <<"G","E","T">>
HTTP11 == <<"H","T","T","P","/","1",".","1">>
CONTENT_LENGTH == <<"C","o","n","t","e","n","t","-","L","e","n","g","t","h">>

\* F(v), with v evaluated once whatever the number of uses F makes of it
Let(v, F(_)) == CHOOSE y \in {F(x) : x \in {v}} : TRUE

Upper == <<"A","B","C","D","E","F","G","H","I","J","K","L","M",
           "N","O","P","Q","R","S","T","U","V","W","X","Y","Z">>
Lower == <<"a","b","c","d","e","f","g","h","i","j","k","l","m",
           "n","o","p","q","r","s","t","u","v","w","x","y","z">>
Digits == <<"0","1","2","3","4","5","6","7","8","9">>

IsUpper(c) == \E i \in 1..26 : Upper[i] = c
IsLower(c) == \E i \in 1..26 : Lower[i] = c
IsDigit(c) == \E i \in 1..10 : Digits[i] = c
DigitVal(c) == (CHOOSE i \in 1..10 : Digits[i] = c) - 1

to_lowercase(str) ==
    Let(str, LAMBDA s :
        [i \in 1..Len(s) |->
            IF IsUpper(s[i]) THEN Lower[CHOOSE k \in 1..26 : Upper[k] = s[i]] ELSE s[i]])

to_uppercase(str) ==
    Let(str, LAMBDA s :
        [i \in 1..Len(s) |->
            IF IsLower(s[i]) THEN Upper[CHOOSE k \in 1..26 : Lower[k] = s[i]] ELSE s[i]])

IsWhitespace(c) == c \in {" ", "\t", CR, LF}

RECURSIVE trim_end(_)
trim_end(str) ==
    Let(str, LAMBDA s :
        IF s # <<>> /\ IsWhitespace(s[Len(s)]) THEN trim_end(SubSeq(s, 1, Len(s) - 1)) ELSE s)

RECURSIVE trim_start(_)
trim_start(str) ==
    Let(str, LAMBDA s :
        IF s # <<>> /\ IsWhitespace(s[1]) THEN trim_start(Tail(s)) ELSE s)

trim(s) == trim_start(trim_end(s))

MatchAt(s, pat, i) ==
    /\ i + Len(pat) - 1 <= Len(s)
    /\ SubSeq(s, i, i + Len(pat) - 1) = pat

\* index of the first occurrence of pat in s, 0 when there is none
find(str, pat) ==
    Let(str, LAMBDA s :
        IF \E i \in 1..Len(s) : MatchAt(s, pat, i)
        THEN CHOOSE i \in 1..Len(s) :
                MatchAt(s, pat, i) /\ \A j \in 1..(i - 1) : ~MatchAt(s, pat, j)
        ELSE 0)

contains(s, pat) == find(s, pat) # 0

starts_with(s, pat) == MatchAt(s, pat, 1)

strip_prefix(s, pat) == SubSeq(s, Len(pat) + 1, Len(s))

\* str::split: the pieces between the non-overlapping occurrences of pat
RECURSIVE split(_, _)
split(str, pat) ==
    Let(str, LAMBDA s : Let(find(s, pat), LAMBDA i :
        IF i = 0 THEN <<s>>
        ELSE <<SubSeq(s, 1, i - 1)>> \o split(SubSeq(s, i + Len(pat), Len(s)), pat)))

from_utf8_ok(s) == \A i \in 1..Len(s) : s[i] # BAD

\* str::parse::<usize>: an optional '+' and then one or more decimal digits
RECURSIVE DecimalValue(_)
DecimalValue(s) ==
    IF s = <<>> THEN 0 ELSE 10 * DecimalValue(SubSeq(s, 1, Len(s) - 1)) + DigitVal(s[Len(s)])

parse_usize_ok(s) ==
    LET d == IF s # <<>> /\ s[1] = "+" THEN Tail(s) ELSE s IN
    d # <<>> /\ \A i \in 1..Len(d) : IsDigit(d[i])

parse_usize(s) ==
    DecimalValue(IF s # <<>> /\ s[1] = "+" THEN Tail(s) ELSE s)

\* usize::to_string
RECURSIVE to_string(_)
to_string(n) ==
    IF n < 10 THEN <<Digits[n + 1]>> ELSE to_string(n \div 10) \o <<Digits[(n % 10) + 1]>>

(***************************************************************************)
(* HttpHeaders (http_headers.rs): a map from header name to header value.  *)
(***************************************************************************)
HttpHeaders_new == << >>

HttpHeaders_has(h, k) == k \in DOMAIN h

HttpHeaders_get(h, k) == h[k]

HttpHeaders_insert(headers, name, value) ==
    Let(<<headers, name, value>>, LAMBDA a :
        [x \in (DOMAIN a[1]) \cup {a[2]} |-> IF x = a[2] THEN a[3] ELSE a[1][x]])

(***************************************************************************)
(* HttpBody (http_body.rs)                                                 *)
(***************************************************************************)
NoBody == [kind |-> "None", bytes |-> <<>>]
Text(s) == [kind |-> "Text", bytes |-> s]
Binary(b) == [kind |-> "Binary", bytes |-> b]

as_bytes(body) == body.bytes

(***************************************************************************)
(* The buffered reader over the connection                                 *)
(***************************************************************************)
Remaining(s, p) == SubSeq(s, p + 1, Len(s))

\* BufRead::read_until(b'\n'): the bytes up to and including the next '\n',
\* or up to the end of the stream; an I/O error when the stream breaks first.
read_until(s, p, end) ==
    Let(Remaining(s, p), LAMBDA rest : Let(find(rest, <<LF>>), LAMBDA i :
        IF i # 0 THEN [ok |-> TRUE, buf |-> SubSeq(rest, 1, i), pos |-> p + i]
        ELSE IF end = "reset" THEN [ok |-> FALSE, buf |-> rest, pos |-> Len(s)]
        ELSE [ok |-> TRUE, buf |-> rest, pos |-> Len(s)]))

\* BufRead::read_line: read_until into a String, an error when not UTF-8
read_line(s, p, end) ==
    Let(read_until(s, p, end), LAMBDA r :
        IF r.ok /\ ~from_utf8_ok(r.buf) THEN [r EXCEPT !.ok = FALSE] ELSE r)

\* Read::read_exact: n bytes, or an error when the stream ends before them
read_exact(s, p, end, n) ==
    IF n = 0 THEN [ok |-> TRUE, buf |-> <<>>, pos |-> p]
    ELSE IF Len(s) - p >= n THEN [ok |-> TRUE, buf |-> SubSeq(s, p + 1, p + n), pos |-> p + n]
    ELSE [ok |-> FALSE, buf |-> <<>>, pos |-> Len(s)]

(***************************************************************************)
(* http_request.rs                                                         *)
(***************************************************************************)
parse_request_line(s, p, end) ==
    Let(read_until(s, p, end), LAMBDA r :
        IF ~r.ok THEN [ok |-> FALSE, method |-> <<>>, path |-> <<>>, pos |-> r.pos]
        ELSE IF ~from_utf8_ok(r.buf)
            THEN [ok |-> FALSE, method |-> <<>>, path |-> <<>>, pos |-> r.pos]
        ELSE Let(split(trim_end(r.buf), SP), LAMBDA parts :
            IF Len(parts) = 3
            THEN [ok |-> TRUE, method |-> parts[1], path |-> parts[2], pos |-> r.pos]
            ELSE [ok |-> FALSE, method |-> <<>>, path |-> <<>>, pos |-> r.pos]))

\* header_line without the to_lowercase() of the name
header_line_keeps_case(headers, buffer) ==
    Let(trim_end(buffer), LAMBDA line : Let(split(line, COLON_SP), LAMBDA parts :
        IF contains(line, COLON_SP) /\ Len(parts) = 2
        THEN HttpHeaders_insert(headers, parts[1], parts[2])
        ELSE headers))

\* one iteration of the loop of parse_headers on the headers read so far
header_line(headers, buffer) ==
    Let(trim_end(buffer), LAMBDA line : Let(split(line, COLON_SP), LAMBDA parts :
        IF contains(line, COLON_SP) /\ Len(parts) = 2
        THEN HttpHeaders_insert(headers, to_lowercase(parts[1]), parts[2])
        ELSE headers))

RECURSIVE parse_headers_loop(_, _, _, _)
parse_headers_loop(s, p, end, read) ==
    Let(<<read_line(s, p, end), read>>, LAMBDA a :
        LET r == a[1]
            headers == a[2]
        IN  IF ~r.ok THEN [ok |-> FALSE, headers |-> headers, pos |-> r.pos]
            ELSE IF Len(r.buf) = 0 \/ trim(r.buf) = <<>>
                THEN [ok |-> TRUE, headers |-> headers, pos |-> r.pos]
            ELSE parse_headers_loop(s, r.pos, end, header_line(headers, r.buf)))

parse_headers(s, p, end) == parse_headers_loop(s, p, end, HttpHeaders_new)

\* parse_body with Read::read in place of Read::read_exact: a short read is accepted
parse_body_short_read(s, p, end, content_length) ==
    LET n == IF Len(s) - p >= content_length THEN content_length ELSE Len(s) - p IN
    [ok |-> TRUE, body |-> Binary(SubSeq(s, p + 1, p + n)), pos |-> p + n]

parse_body(s, p, end, content_length) ==
    Let(read_exact(s, p, end, content_length), LAMBDA r :
        IF r.ok THEN [ok |-> TRUE, body |-> Binary(r.buf), pos |-> r.pos]
        ELSE [ok |-> FALSE, body |-> NoBody, pos |-> r.pos])

CONTENT_LENGTH_LC == <<"c","o","n","t","e","n","t","-","l","e","n","g","t","h">>

\* http_request::parse, the step that reads the request line (lines 27-32)
ParseRequestLine ==
    /\ ppc = "request_line"
    /\ LET r == parse_request_line(stream, pos, stream_end) IN
        /\ pos' = r.pos
        /\ IF r.ok
           THEN /\ request' = [request EXCEPT !.method = r.method, !.path = r.path]
                /\ ppc' = "headers"
                /\ perr' = perr
           ELSE /\ request' = request
                /\ ppc' = "err"
                /\ perr' = "request_line"
    /\ UNCHANGED <<stream, stream_end, send_vars, main_vars>>

\* http_request::parse, the step that reads the header block (line 34)
ParseHeaders ==
    /\ ppc = "headers"
    /\ LET r == parse_headers(stream, pos, stream_end) IN
        /\ pos' = r.pos
        /\ IF r.ok
           THEN /\ request' = [request EXCEPT !.headers = r.headers]
                /\ ppc' = "body"
                /\ perr' = perr
           ELSE /\ request' = request
                /\ ppc' = "err"
                /\ perr' = "headers"
    /\ UNCHANGED <<stream, stream_end, send_vars, main_vars>>

\* http_request::parse, the Content-Length header and the body (lines 36-46)
ParseBody ==
    /\ ppc = "body"
    /\ IF ~HttpHeaders_has(request.headers, CONTENT_LENGTH_LC)
       THEN /\ ppc' = "ok"
            /\ UNCHANGED <<pos, request, perr>>
       ELSE LET content_length == HttpHeaders_get(request.headers, CONTENT_LENGTH_LC) IN
            IF ~parse_usize_ok(content_length)
            THEN /\ ppc' = "err"
                 /\ perr' = "content_length"
                 /\ UNCHANGED <<pos, request>>
            ELSE LET r == parse_body(stream, pos, stream_end, parse_usize(content_length)) IN
                 /\ pos' = r.pos
                 /\ IF r.ok
                    THEN /\ request' = [request EXCEPT !.body = r.body]
                         /\ ppc' = "ok"
                         /\ perr' = perr
                    ELSE /\ request' = request
                         /\ ppc' = "err"
                         /\ perr' = "body"
    /\ UNCHANGED <<stream, stream_end, send_vars, main_vars>>

(***************************************************************************)
(* http_status.rs                                                          *)
(***************************************************************************)
OK == [code |-> <<"2","0","0">>, text |-> <<"O","K">>]
BAD_REQUEST ==
    [code |-> <<"4","0","0">>, text |-> <<"B","a","d"," ","R","e","q","u","e","s","t">>]
NOT_FOUND ==
    [code |-> <<"4","0","4">>, text |-> <<"N","o","t"," ","F","o","u","n","d">>]
METHOD_NOT_ALLOWED ==
    [code |-> <<"4","0","5">>,
     text |-> <<"M","e","t","h","o","d"," ","N","o","t"," ","A","l","l","o","w","e","d">>]
INTERNAL_SERVER_ERROR ==
    [code |-> <<"5","0","0">>,
     text |-> <<"I","n","t","e","r","n","a","l"," ","S","e","r","v","e","r"," ",
                "E","r","r","o","r">>]

(***************************************************************************)
(* What is written on the connection, piece by piece.  A write_all that    *)
(* fails leaves an incomplete piece and nothing after it.                  *)
(***************************************************************************)
Written(part, bytes) == [part |-> part, bytes |-> bytes, lines |-> {}, complete |-> TRUE]
WrittenLines(part, lines) == [part |-> part, bytes |-> <<>>, lines |-> lines, complete |-> TRUE]
Broken(w) == [w EXCEPT !.complete = FALSE]

HTTP11_SP == HTTP11 \o SP

\* format!("HTTP/1.1 {} {}\r\n", status.code, status.text)
status_line(status) == HTTP11_SP \o status.code \o SP \o status.text \o CRLF

\* format!("{}: {}\r\n", k, v) for every header, in the order of the map
header_lines(headers) == { k \o COLON_SP \o headers[k] \o CRLF : k \in DOMAIN headers }

(***************************************************************************)
(* http_response.rs                                                        *)
(***************************************************************************)
CONTENT_TYPE == <<"C","o","n","t","e","n","t","-","T","y","p","e">>
CONTENT_ENCODING == <<"C","o","n","t","e","n","t","-","E","n","c","o","d","i","n","g">>
ACCEPT_ENCODING_LC == <<"a","c","c","e","p","t","-","e","n","c","o","d","i","n","g">>
TEXT_PLAIN == <<"t","e","x","t","/","p","l","a","i","n">>
OCTET_STREAM == <<"a","p","p","l","i","c","a","t","i","o","n","/",
                  "o","c","t","e","t","-","s","t","r","e","a","m">>
GZIP_LC == <<"g","z","i","p">>
DEFLATE_LC == <<"d","e","f","l","a","t","e">>

\* impl Display for ContentEncoding: the name of the variant
ContentEncoding_to_string(e) ==
    CASE e = "Gzip" -> <<"G","z","i","p">>
      [] e = "Deflate" -> <<"D","e","f","l","a","t","e">>
      [] OTHER -> <<"N","o","n","e">>

\* the loop of determine_content_encoding over the pieces of the header value
RECURSIVE first_supported(_)
first_supported(encodings) ==
    IF encodings = <<>> THEN "None"
    ELSE IF to_lowercase(trim(Head(encodings))) = GZIP_LC THEN "Gzip"
    ELSE IF to_lowercase(trim(Head(encodings))) = DEFLATE_LC THEN "Deflate"
    ELSE first_supported(Tail(encodings))

\* determine_content_encoding that looks for gzip in every piece before deflate
determine_content_encoding_prefers_gzip(headers) ==
    IF ~HttpHeaders_has(headers, ACCEPT_ENCODING_LC) THEN "None"
    ELSE LET encodings == split(HttpHeaders_get(headers, ACCEPT_ENCODING_LC), <<",">>) IN
         IF \E i \in 1..Len(encodings) : to_lowercase(trim(encodings[i])) = GZIP_LC THEN "Gzip"
         ELSE first_supported(encodings)

determine_content_encoding(headers) ==
    IF ~HttpHeaders_has(headers, ACCEPT_ENCODING_LC) THEN "None"
    ELSE first_supported(split(HttpHeaders_get(headers, ACCEPT_ENCODING_LC), <<",">>))

\* The encoders of the flate2 crate, as a run-length code: a count and a byte
\* for every run, then an end-of-block mark.
RECURSIVE RunLength(_)
RunLength(data) ==
    IF data = <<>> THEN <<>>
    ELSE LET same == {n \in 1..Len(data) : \A i \in 1..n : data[i] = data[1]}
             n == CHOOSE m \in same : \A k \in same : k <= m
         IN  to_string(n) \o <<data[1]>> \o RunLength(SubSeq(data, n + 1, Len(data)))

compress_deflate(data, encoder_ok) ==
    IF encoder_ok THEN [ok |-> TRUE, data |-> RunLength(data) \o <<"<EOB>">>]
    ELSE [ok |-> FALSE, data |-> <<>>]

\* gzip: the magic number, the deflate stream, the length of the input
compress_gzip(data, encoder_ok) ==
    IF encoder_ok
    THEN [ok |-> TRUE,
          data |-> <<"<1F>", "<8B>">> \o RunLength(data) \o <<"<EOB>">> \o to_string(Len(data))]
    ELSE [ok |-> FALSE, data |-> <<>>]

\* set_content_encoding_header without the to_lowercase() of the name
set_content_encoding_header_as_displayed(resp, encoding) ==
    IF encoding = "None" THEN resp
    ELSE [resp EXCEPT !.headers =
            HttpHeaders_insert(@, CONTENT_ENCODING, ContentEncoding_to_string(encoding))]

set_content_encoding_header(resp, encoding) ==
    IF encoding = "None" THEN resp
    ELSE [resp EXCEPT !.headers =
            HttpHeaders_insert(@, CONTENT_ENCODING,
                               to_lowercase(ContentEncoding_to_string(encoding)))]

compress_body(resp, encoding, encoder_ok) ==
    IF resp.body.kind = "None" THEN [ok |-> TRUE, response |-> resp]
    ELSE IF encoding = "None" THEN [ok |-> TRUE, response |-> resp]
    ELSE LET r == IF encoding = "Gzip"
                  THEN compress_gzip(as_bytes(resp.body), encoder_ok)
                  ELSE compress_deflate(as_bytes(resp.body), encoder_ok)
         IN  IF ~r.ok THEN [ok |-> FALSE, response |-> resp]
             ELSE [ok |-> TRUE,
                   response |-> set_content_encoding_header(
                                    [resp EXCEPT !.body = Binary(r.data)], encoding)]

determine_content_length(body) == Len(body.bytes)

set_content_length_header(resp) ==
    LET content_length == determine_content_length(resp.body) IN
    IF content_length > 0
    THEN [resp EXCEPT !.headers = HttpHeaders_insert(@, CONTENT_LENGTH, to_string(content_length))]
    ELSE resp

determine_content_type(body) ==
    IF body.kind = "Binary" THEN OCTET_STREAM ELSE TEXT_PLAIN

set_content_type_header(resp) ==
    IF HttpHeaders_has(resp.headers, CONTENT_TYPE) THEN resp
    ELSE [resp EXCEPT !.headers =
            HttpHeaders_insert(@, CONTENT_TYPE, determine_content_type(resp.body))]

\* send, line 35: send_status_line
SendStatusLine ==
    /\ spc = "status_line"
    /\ \E write_ok \in BOOLEAN :
        LET w == Written("status_line", status_line(response.status)) IN
        IF write_ok
        THEN wire' = Append(wire, w) /\ spc' = "compress"
        ELSE wire' = Append(wire, Broken(w)) /\ spc' = "err"
    /\ UNCHANGED <<request_headers, handler_response, response, content_encoding>>
    /\ UNCHANGED <<parse_vars, main_vars>>

\* send, lines 37-38: determine_content_encoding and compress_body
CompressBody ==
    /\ spc = "compress"
    /\ \E encoder_ok \in BOOLEAN :
        LET encoding == determine_content_encoding(request_headers)
            r == compress_body(response, encoding, encoder_ok)
        IN  /\ content_encoding' = encoding
            /\ response' = r.response
            /\ spc' = IF r.ok THEN "set_headers" ELSE "err"
    /\ UNCHANGED <<request_headers, handler_response, wire, parse_vars, main_vars>>

\* send, lines 40-41: set_content_length_header and set_content_type_header
SetHeaders ==
    /\ spc = "set_headers"
    /\ response' = set_content_type_header(set_content_length_header(response))
    /\ spc' = "send_headers"
    /\ UNCHANGED <<request_headers, handler_response, content_encoding, wire>>
    /\ UNCHANGED <<parse_vars, main_vars>>

\* send_headers without the ? on its first write_all: the empty line is
\* written although the header lines were not
SendHeaders_ignores_failure ==
    /\ spc = "send_headers"
    /\ \E failing \in {"none", "headers", "empty_line"} :
        LET h == WrittenLines("headers", header_lines(response.headers))
            e == Written("empty_line", CRLF)
        IN  CASE failing = "headers" -> wire' = wire \o <<Broken(h), e>> /\ spc' = "send_body"
              [] failing = "empty_line" -> wire' = wire \o <<h, Broken(e)>> /\ spc' = "err"
              [] OTHER -> wire' = wire \o <<h, e>> /\ spc' = "send_body"
    /\ UNCHANGED <<request_headers, handler_response, response, content_encoding>>
    /\ UNCHANGED <<parse_vars, main_vars>>

\* send, line 43: send_headers, the header lines and then the empty line
SendHeaders ==
    /\ spc = "send_headers"
    /\ \E failing \in {"none", "headers", "empty_line"} :
        LET h == WrittenLines("headers", header_lines(response.headers))
            e == Written("empty_line", CRLF)
        IN  CASE failing = "headers" -> wire' = Append(wire, Broken(h)) /\ spc' = "err"
              [] failing = "empty_line" -> wire' = wire \o <<h, Broken(e)>> /\ spc' = "err"
              [] OTHER -> wire' = wire \o <<h, e>> /\ spc' = "send_body"
    /\ UNCHANGED <<request_headers, handler_response, response, content_encoding>>
    /\ UNCHANGED <<parse_vars, main_vars>>

\* send, lines 44-46: send_body
SendBody ==
    /\ spc = "send_body"
    /\ IF response.body.kind = "None"
       THEN wire' = wire /\ spc' = "done"
       ELSE \E write_ok \in BOOLEAN :
            LET w == Written("body", as_bytes(response.body)) IN
            IF write_ok
            THEN wire' = Append(wire, w) /\ spc' = "done"
            ELSE wire' = Append(wire, Broken(w)) /\ spc' = "err"
    /\ UNCHANGED <<request_headers, handler_response, response, content_encoding>>
    /\ UNCHANGED <<parse_vars, main_vars>>

(***************************************************************************)
(* main.rs                                                                 *)
(***************************************************************************)
NumConns == 2
MaxAcceptErrors == 1

Conns == 1..NumConns

USER_AGENT_LC == <<"u","s","e","r","-","a","g","e","n","t">>
INDEX_HTML == <<"/","i","n","d","e","x",".","h","t","m","l">>
ECHO_PREFIX == <<"/","e","c","h","o","/">>
FILES_PREFIX == <<"/","f","i","l","e","s","/">>
USER_AGENT_PATH == <<"/">> \o USER_AGENT_LC

None == [some |-> FALSE, value |-> <<>>]
Some(v) == [some |-> TRUE, value |-> v]

\* BufRead::lines: the next line without its "\n" or "\r\n"; an error on a
\* line that is not UTF-8 or when the stream breaks
next_line(s, p, end) ==
    Let(read_line(s, p, end), LAMBDA r :
        Let(IF r.buf # <<>> /\ r.buf[Len(r.buf)] = LF
            THEN SubSeq(r.buf, 1, Len(r.buf) - 1) ELSE r.buf, LAMBDA a :
            [ok |-> r.ok, eof |-> r.ok /\ r.buf = <<>>, pos |-> r.pos,
             line |-> IF a # <<>> /\ a[Len(a)] = CR /\ a # r.buf
                      THEN SubSeq(a, 1, Len(a) - 1) ELSE a]))

\* the loop of parse_request (main.rs): failed is set where the code reports
\* an invalid request or a failed read
RECURSIVE parse_request_loop(_, _, _, _, _)
parse_request_loop(s, p, end, line_count, read) ==
    Let(<<next_line(s, p, end), read>>, LAMBDA a :
        LET r == a[1]
            req == a[2]
        IN  IF ~r.ok THEN [request |-> req, failed |-> TRUE]
            ELSE IF r.eof THEN [request |-> req, failed |-> FALSE]
            ELSE IF trim(r.line) = <<>> THEN [request |-> req, failed |-> FALSE]
            ELSE IF line_count = 0
                THEN Let(split(r.line, SP), LAMBDA parts :
                     IF Len(parts) < 2 THEN [request |-> req, failed |-> TRUE]
                     ELSE parse_request_loop(s, r.pos, end, line_count + 1,
                            [req EXCEPT !.method = parts[1], !.path = parts[2]]))
            ELSE IF contains(r.line, COLON_SP)
                THEN Let(split(r.line, COLON_SP), LAMBDA parts :
                     parse_request_loop(s, r.pos, end, line_count + 1,
                        IF Len(parts) = 2
                        THEN [req EXCEPT !.headers =
                                HttpHeaders_insert(@, to_lowercase(parts[1]), parts[2])]
                        ELSE req))
            ELSE parse_request_loop(s, r.pos, end, line_count + 1, req))

parse_request(s, end) ==
    parse_request_loop(s, 0, end, 0,
                       [method |-> <<>>, path |-> <<>>, headers |-> HttpHeaders_new])

Response(status, headers, body) == [status |-> status, headers |-> headers, body |-> body]

\* the pieces send_response (main.rs) writes, one sequence per write_all call
send_response_writes(resp) ==
    LET typed == IF HttpHeaders_has(resp.headers, CONTENT_TYPE) THEN resp.headers
                 ELSE HttpHeaders_insert(resp.headers, CONTENT_TYPE, TEXT_PLAIN)
        headers == IF resp.body.kind = "None"
                   THEN HttpHeaders_insert(typed, CONTENT_LENGTH, <<"0">>)
                   ELSE typed
        head == << Written("status_line", status_line(resp.status)),
                   WrittenLines("headers", header_lines(headers)),
                   Written("empty_line", CRLF) >>
    IN  CASE resp.body.kind = "None" -> << head >>
          [] resp.body.kind = "Text" -> << head \o <<Written("body", resp.body.bytes)>> >>
          [] OTHER -> << head, <<Written("body", resp.body.bytes)>> >>

RECURSIVE Flatten(_)
Flatten(ss) == IF ss = <<>> THEN <<>> ELSE Head(ss) \o Flatten(Tail(ss))

\* send_response: failing = 0 when every write succeeds, otherwise the write_all
\* call that fails, whose unwrap() then panics.  The failed call has written a
\* strict prefix of its bytes, recorded as its first piece left incomplete.
send_response(resp, failing) ==
    LET writes == send_response_writes(resp) IN
    IF failing = 0 \/ failing > Len(writes)
    THEN [wire |-> Flatten(writes), panicked |-> FALSE]
    ELSE [wire |-> Flatten(SubSeq(writes, 1, failing - 1)) \o <<Broken(writes[failing][1])>>,
          panicked |-> TRUE]

handle_get_echo(req) ==
    << Response(OK, HttpHeaders_insert(HttpHeaders_new, CONTENT_TYPE, TEXT_PLAIN),
                Text(strip_prefix(req.path, ECHO_PREFIX))) >>

\* handle_get_files whose NotFound arm falls through to the arm of the other errors
handle_get_files_falls_through(req, files_directory, read) ==
    IF ~files_directory.some THEN << Response(NOT_FOUND, HttpHeaders_new, NoBody) >>
    ELSE IF read.result = "Ok"
        THEN << Response(OK, HttpHeaders_insert(HttpHeaders_new, CONTENT_TYPE, OCTET_STREAM),
                         Binary(read.contents)) >>
    ELSE IF read.result = "NotFound"
        THEN << Response(NOT_FOUND, HttpHeaders_new, NoBody),
                Response(INTERNAL_SERVER_ERROR, HttpHeaders_new, NoBody) >>
    ELSE << Response(INTERNAL_SERVER_ERROR, HttpHeaders_new, NoBody) >>

\* the responses handle_get_files passes to send_response; read is what
\* std::fs::read gives for the file
handle_get_files(req, files_directory, read) ==
    IF ~files_directory.some THEN << Response(NOT_FOUND, HttpHeaders_new, NoBody) >>
    ELSE IF read.result = "Ok"
        THEN << Response(OK, HttpHeaders_insert(HttpHeaders_new, CONTENT_TYPE, OCTET_STREAM),
                         Binary(read.contents)) >>
    ELSE IF read.result = "NotFound"
        THEN << Response(NOT_FOUND, HttpHeaders_new, NoBody) >>
    ELSE << Response(INTERNAL_SERVER_ERROR, HttpHeaders_new, NoBody) >>

handle_get_user_agent(req) ==
    IF ~HttpHeaders_has(req.headers, USER_AGENT_LC)
    THEN << Response(BAD_REQUEST, HttpHeaders_new, NoBody) >>
    ELSE << Response(OK, HttpHeaders_insert(HttpHeaders_new, CONTENT_TYPE, TEXT_PLAIN),
                     Text(HttpHeaders_get(req.headers, USER_AGENT_LC))) >>

\* the responses handle_request passes to send_response, in order
handle_request(req, files_directory, read) ==
    IF to_uppercase(req.method) = GET
    THEN IF req.path = <<"/">> \/ req.path = INDEX_HTML
            THEN << Response(OK, HttpHeaders_new, NoBody) >>
         ELSE IF starts_with(req.path, ECHO_PREFIX) THEN handle_get_echo(req)
         ELSE IF starts_with(req.path, FILES_PREFIX)
            THEN handle_get_files(req, files_directory, read)
         ELSE IF req.path = USER_AGENT_PATH THEN handle_get_user_agent(req)
         ELSE << Response(NOT_FOUND, HttpHeaders_new, NoBody) >>
    ELSE << Response(METHOD_NOT_ALLOWED, HttpHeaders_new, NoBody) >>

\* the calls of send_response one after the other; a panic ends the thread
RECURSIVE send_responses(_, _)
send_responses(resps, failing) ==
    IF resps = <<>> THEN [wire |-> <<>>, panicked |-> FALSE, sends |-> 0]
    ELSE LET first == send_response(Head(resps), failing) IN
         IF first.panicked THEN [wire |-> first.wire, panicked |-> TRUE, sends |-> 1]
         ELSE LET rest == send_responses(Tail(resps), 0) IN
              [wire |-> first.wire \o rest.wire, panicked |-> rest.panicked,
               sends |-> 1 + rest.sends]

\* a panic in a thread started by thread::spawn unwinds that thread only
after_worker_panic_aborts(pc) == "exited"

after_worker_panic(pc) == pc

(***************************************************************************)
(* The connections the server is run on                                    *)
(***************************************************************************)
Line(method, path) == method \o SP \o path \o SP \o HTTP11 \o CRLF

ServerStreams ==
    { [bytes |-> Line(GET, <<"/">>) \o CRLF, end |-> "eof"],
      [bytes |-> Line(<<"g","e","t">>, ECHO_PREFIX \o <<"a","b">>) \o CRLF, end |-> "eof"],
      [bytes |-> Line(GET, FILES_PREFIX \o <<"f">>) \o CRLF, end |-> "eof"],
      [bytes |-> Line(GET, USER_AGENT_PATH)
                    \o <<"U","s","e","r","-","A","g","e","n","t">> \o COLON_SP \o <<"x">> \o CRLF
                    \o CRLF, end |-> "eof"],
      [bytes |-> Line(GET, USER_AGENT_PATH) \o CRLF, end |-> "eof"],
      [bytes |-> <<"B","A","D">> \o CRLF \o CRLF, end |-> "eof"],
      [bytes |-> GET \o SP \o <<"/">> \o CRLF \o CRLF, end |-> "eof"],
      [bytes |-> Line(GET, <<"/">>), end |-> "reset"] }

Directories == { None, Some(<<"/","d">>) }

FileReads ==
    { [result |-> "Ok", contents |-> <<"a", BAD>>],
      [result |-> "NotFound", contents |-> <<>>],
      [result |-> "PermissionDenied", contents |-> <<>>] }

\* parse_request on every stream, and handle_request with send_response on every
\* request, directory, file read and write failure, each computed once
Parsed == [s \in ServerStreams |-> parse_request(s.bytes, s.end)]

Handled ==
    [req \in {Parsed[s].request : s \in ServerStreams}, directory \in Directories,
     read \in FileReads, failing \in 0..2 |->
        send_responses(handle_request(req, directory, read), failing)]

NoConn ==
    [state |-> "none", stream |-> <<>>, stream_end |-> "eof",
     request |-> [method |-> <<>>, path |-> <<>>, headers |-> HttpHeaders_new],
     parse_failed |-> FALSE, parses |-> 0, sends |-> 0, wire |-> <<>>, panicked |-> FALSE]

MainIdle ==
    /\ main_pc = "idle"
    /\ FILES_DIRECTORY = [set |-> FALSE, value |-> None]
    /\ accept_errors = 0
    /\ conns = [c \in Conns |-> NoConn]

\* main, lines 39-42: the OnceLock is set, then the listener is bound
MainStart ==
    /\ main_pc = "start"
    /\ ~FILES_DIRECTORY.set
    /\ \E directory \in Directories : FILES_DIRECTORY' = [set |-> TRUE, value |-> directory]
    /\ \E bound \in BOOLEAN : main_pc' = IF bound THEN "listening" ELSE "exited"
    /\ UNCHANGED <<accept_errors, conns, parse_vars, send_vars>>

\* main, lines 44-51: a connection is accepted and its thread spawned
Accept(c) ==
    /\ main_pc = "listening"
    /\ conns[c].state = "none"
    /\ \E s \in ServerStreams :
        conns' = [conns EXCEPT ![c] =
                    [NoConn EXCEPT !.state = "accepted", !.stream = s.bytes, !.stream_end = s.end]]
    /\ UNCHANGED <<main_pc, FILES_DIRECTORY, accept_errors, parse_vars, send_vars>>

\* main, lines 52-54: a failed accept is logged and the loop goes on
AcceptError ==
    /\ main_pc = "listening"
    /\ accept_errors < MaxAcceptErrors
    /\ accept_errors' = accept_errors + 1
    /\ UNCHANGED <<main_pc, FILES_DIRECTORY, conns, parse_vars, send_vars>>

\* handle_connection, line 60: parse_request
ParseRequest(c) ==
    /\ conns[c].state = "accepted"
    /\ LET r == Parsed[[bytes |-> conns[c].stream, end |-> conns[c].stream_end]] IN
        conns' = [conns EXCEPT ![c] =
                    [@ EXCEPT !.state = "parsed", !.request = r.request,
                              !.parse_failed = r.failed, !.parses = @ + 1]]
    /\ UNCHANGED <<main_pc, FILES_DIRECTORY, accept_errors, parse_vars, send_vars>>

\* handle_connection, lines 61-62: handle_request, then the stream is dropped
HandleRequest(c) ==
    /\ conns[c].state = "parsed"
    /\ FILES_DIRECTORY.set
    /\ \E read \in FileReads : \E failing \in 0..2 :
        LET r == Handled[conns[c].request, FILES_DIRECTORY.value, read, failing] IN
            /\ conns' = [conns EXCEPT ![c] =
                            [@ EXCEPT !.state = "closed", !.wire = @ \o r.wire,
                                      !.sends = @ + r.sends, !.panicked = r.panicked]]
            /\ main_pc' = IF r.panicked THEN after_worker_panic(main_pc) ELSE main_pc
    /\ UNCHANGED <<FILES_DIRECTORY, accept_errors, parse_vars, send_vars>>

(***************************************************************************)
(* The requests and responses send is run on                               *)
(***************************************************************************)
AcceptEncodings ==
    { GZIP_LC,
      DEFLATE_LC,
      DEFLATE_LC \o <<",", " ">> \o GZIP_LC,
      <<"b","r">> \o <<",", " ">> \o GZIP_LC,
      <<"b","r">>,
      <<" ", "G","Z","I","P", " ", ",">> \o DEFLATE_LC,
      GZIP_LC \o <<";","q","=","1">> \o <<",">> \o <<"D","e","f","l","a","t","e">>,
      <<"x">> \o GZIP_LC,
      <<>> }

RequestHeaders ==
    { HttpHeaders_new } \cup
    { HttpHeaders_insert(HttpHeaders_new, ACCEPT_ENCODING_LC, v) : v \in AcceptEncodings }

HandlerHeaders ==
    { HttpHeaders_new,
      HttpHeaders_insert(HttpHeaders_new, CONTENT_TYPE, <<"t","e","x","t","/","h","t","m","l">>) }

HandlerBodies ==
    { NoBody, Text(<<>>), Text(<<"h","i">>), Binary(<<"a","a","a",BAD>>), Binary(<<>>) }

HandlerResponses ==
    { [status |-> s, headers |-> h, body |-> b] :
        s \in {OK, INTERNAL_SERVER_ERROR}, h \in HandlerHeaders, b \in HandlerBodies }

SendIdle ==
    /\ request_headers = HttpHeaders_new
    /\ handler_response = [status |-> OK, headers |-> HttpHeaders_new, body |-> NoBody]
    /\ response = handler_response
    /\ content_encoding = "None"
    /\ spc = "idle"
    /\ wire = <<>>

ParseIdle ==
    /\ stream = <<>>
    /\ stream_end = "eof"
    /\ pos = 0
    /\ ppc = "idle"
    /\ request = [method |-> <<>>, path |-> <<>>, headers |-> HttpHeaders_new, body |-> NoBody]
    /\ perr = ""

SendInit ==
    /\ request_headers \in RequestHeaders
    /\ handler_response \in HandlerResponses
    /\ response = handler_response
    /\ content_encoding = "None"
    /\ spc = "status_line"
    /\ wire = <<>>
    /\ ParseIdle

    /\ MainIdle

SendNext == SendStatusLine \/ CompressBody \/ SetHeaders \/ SendHeaders \/ SendBody

(***************************************************************************)
(* The byte streams the parser is run on                                   *)
(***************************************************************************)
MaxHeaderLines == 2


RequestLines ==
    { GET \o SP \o <<"/">> \o SP \o HTTP11 \o CRLF,
      GET \o SP \o <<"/">> \o SP \o HTTP11,
      GET \o SP \o <<"/">> \o SP \o HTTP11 \o SP \o CRLF,
      GET \o SP \o SP \o <<"/">> \o SP \o HTTP11 \o CRLF,
      GET \o SP \o <<"/">> \o SP \o HTTP11 \o SP \o <<"x">> \o CRLF,
      GET \o SP \o <<"/">> \o CRLF,
      GET \o CRLF,
      <<"G", BAD, "T">> \o SP \o <<"/">> \o SP \o HTTP11 \o CRLF,
      CRLF,
      <<>> }

HeaderLines ==
    { CONTENT_LENGTH \o COLON_SP \o <<"2">> \o CRLF,
      CONTENT_LENGTH_LC \o COLON_SP \o <<"1">> \o <<LF>>,
      CONTENT_LENGTH \o COLON_SP \o <<"x">> \o CRLF,
      <<"H","o","s","t">> \o COLON_SP \o <<"a">> \o CRLF,
      <<"H","o","s","t">> \o CRLF,
      <<"H","o","s","t">> \o COLON_SP \o CRLF,
      <<"A">> \o COLON_SP \o <<"b">> \o COLON_SP \o <<"c">> \o CRLF,
      <<"X", BAD>> \o COLON_SP \o <<"y">> \o CRLF,
      <<" ">> \o CRLF }

RECURSIVE HeaderBlocks(_)
HeaderBlocks(n) ==
    IF n = 0 THEN { <<>> }
    ELSE HeaderBlocks(n - 1) \cup
         { b \o l : b \in HeaderBlocks(n - 1), l \in HeaderLines }

BlankLines == { CRLF, <<>> }

BodyBytes == { <<>>, <<"a">>, <<BAD, LF, "c">> }

Streams ==
    { r \o h \o e \o b :
        r \in RequestLines, h \in HeaderBlocks(MaxHeaderLines), e \in BlankLines, b \in BodyBytes }

ParseInit ==
    /\ stream \in Streams
    /\ stream_end \in {"eof", "reset"}
    /\ pos = 0
    /\ ppc = "request_line"
    /\ request = [method |-> <<>>, path |-> <<>>, headers |-> HttpHeaders_new, body |-> NoBody]
    /\ perr = ""

    /\ SendIdle
    /\ MainIdle

ParseNext == ParseRequestLine \/ ParseHeaders \/ ParseBody

ParseSpec == ParseInit /\ [][ParseNext]_vars

SendSpec == SendInit /\ [][SendNext]_vars

Init ==
    /\ main_pc = "start"
    /\ FILES_DIRECTORY = [set |-> FALSE, value |-> None]
    /\ accept_errors = 0
    /\ conns = [c \in Conns |-> NoConn]
    /\ ParseIdle
    /\ SendIdle

Next ==
    \/ MainStart
    \/ AcceptError
    \/ \E c \in Conns : Accept(c)
    \/ \E c \in Conns : ParseRequest(c)
    \/ \E c \in Conns : HandleRequest(c)

Spec == Init /\ [][Next]_vars

\* every spawned thread is scheduled until it returns
FairSpec ==
    /\ Spec
    /\ \A c \in Conns : WF_vars(ParseRequest(c)) /\ WF_vars(HandleRequest(c))

(***************************************************************************)
(* The lines of a byte stream, read off the stream without the parser      *)
(***************************************************************************)
\* the lines of s from byte a on, each with its terminator
RECURSIVE LinesFrom(_, _)
LinesFrom(s, a) ==
    IF a > Len(s) THEN <<>>
    ELSE LET ends == {i \in a..Len(s) : s[i] = LF}
             e == IF ends = {} THEN Len(s)
                  ELSE CHOOSE i \in ends : \A j \in ends : i <= j
         IN  <<SubSeq(s, a, e)>> \o LinesFrom(s, e + 1)

\* the lines the reader delivers: when the stream breaks, the bytes after the
\* last "\n" never make a line
Lines ==
    LET all == LinesFrom(stream, 1) IN
    IF stream_end = "reset" /\ all # <<>> /\ all[Len(all)][Len(all[Len(all)])] # LF
    THEN SubSeq(all, 1, Len(all) - 1)
    ELSE all

\* a line without its "\n" and without the "\r" before it
StripTerminator(l) ==
    LET a == IF l # <<>> /\ l[Len(l)] = LF THEN SubSeq(l, 1, Len(l) - 1) ELSE l
    IN  IF a # <<>> /\ a[Len(a)] = CR THEN SubSeq(a, 1, Len(a) - 1) ELSE a

RequestLine == IF Lines = <<>> THEN <<>> ELSE Lines[1]

\* the number of single spaces in a line, plus one
TokenCount(l) == Cardinality({i \in 1..Len(l) : l[i] = " "}) + 1

IsBlank(l) == \A i \in 1..Len(l) : IsWhitespace(l[i])

IsEmptyLine(l) == StripTerminator(l) = <<>>

\* index in Lines of the line that ends the header block, Len(Lines) + 1 when
\* the stream ends first
BlockEnd(Ends(_)) ==
    IF \E i \in 2..Len(Lines) : Ends(Lines[i])
    THEN CHOOSE i \in 2..Len(Lines) : Ends(Lines[i]) /\ \A j \in 2..(i - 1) : ~Ends(Lines[j])
    ELSE Len(Lines) + 1

RECURSIVE SumLen(_, _)
SumLen(ls, n) == IF n = 0 THEN 0 ELSE SumLen(ls, n - 1) + Len(ls[n])

\* the number of bytes up to and including the blank line that ends the headers
BodyStart ==
    LET k == BlockEnd(IsBlank) IN SumLen(Lines, IF k > Len(Lines) THEN Len(Lines) ELSE k)

\* the ": " separators of a header line
Separators(l) == {j \in 1..Len(l) : MatchAt(l, COLON_SP, j)}

(***************************************************************************)
(* C1: request-line parsing succeeds exactly when the request line, with   *)
(* its line terminator removed, splits on single spaces into exactly three *)
(* tokens, and then method is the first token and path the second; every   *)
(* other token count, trailing spaces included, is a parse failure.        *)
(* Stated for request lines that are valid UTF-8 and read without an I/O   *)
(* error.                                                                  *)
(***************************************************************************)
C1_ThreeTokensExactly ==
    (ppc # "request_line" /\ from_utf8_ok(RequestLine) /\ stream_end = "eof") =>
        LET line == StripTerminator(RequestLine)
            parsed == ~(ppc = "err" /\ perr = "request_line")
        IN  /\ parsed <=> TokenCount(line) = 3
            /\ parsed =>
                /\ request.method \o SP = SubSeq(line, 1, Len(request.method) + 1)
                /\ TokenCount(request.method) = 1
                /\ TokenCount(request.path) = 1
                /\ request.method \o SP \o request.path \o SP
                    = SubSeq(line, 1, Len(request.method) + Len(request.path) + 2)

Stored(l, k) ==
    /\ Cardinality(Separators(l)) = 1
    /\ to_lowercase(SubSeq(l, 1, (CHOOSE j \in Separators(l) : TRUE) - 1)) = k

ValueOf(l) == SubSeq(l, (CHOOSE j \in Separators(l) : TRUE) + 2, Len(l))

HeadersAre(Ends(_), Clean(_)) ==
    LET last == BlockEnd(Ends) - 1
        names == UNION {{to_lowercase(SubSeq(Clean(Lines[i]), 1, j - 1)) :
                            j \in 1..Len(Clean(Lines[i]))} : i \in 2..last}
    IN  \A k \in names \cup DOMAIN request.headers :
            LET at == {i \in 2..last : Stored(Clean(Lines[i]), k)} IN
            /\ k \in DOMAIN request.headers <=> at # {}
            /\ at # {} =>
                request.headers[k] = ValueOf(Clean(Lines[CHOOSE i \in at : \A j \in at : j <= i]))

HeaderBlock == [i \in 1..(BlockEnd(IsBlank) - 2) |-> Lines[i + 1]]

HeaderLinesSent ==
    UNION {wire[i].lines : i \in {j \in 1..Len(wire) : wire[j].part = "headers" /\ wire[j].complete}}

\* the values sent under a header name
HeaderValues(name) ==
    { SubSeq(l, Len(name) + 3, Len(l) - 2) :
        l \in {x \in HeaderLinesSent :
                /\ Len(x) >= Len(name) + 4
                /\ SubSeq(x, 1, Len(name) + 2) = name \o COLON_SP
                /\ SubSeq(x, Len(x) - 1, Len(x)) = CRLF} }

BodyWrites == {i \in 1..Len(wire) : wire[i].part = "body"}

BodySent == IF BodyWrites = {} THEN <<>> ELSE wire[CHOOSE i \in BodyWrites : TRUE].bytes

(***************************************************************************)
(* C3: every serialized response carries a Content-Length header whose     *)
(* value is the byte length of the body written, 0 when there is no body   *)
(* or an empty one; the header is never omitted.                           *)
(***************************************************************************)
C3_ContentLengthAlwaysSent ==
    spc = "done" => HeaderValues(CONTENT_LENGTH) = {to_string(Len(BodySent))}

(***************************************************************************)
(* C5: negotiation gives None without an accept-encoding header; otherwise *)
(* the value is cut at every ',', each piece trimmed and lowercased, and   *)
(* the result is the encoding of the first piece, in the order listed,     *)
(* that is exactly gzip or exactly deflate, None when there is no such.    *)
(***************************************************************************)
Negotiated ==
    IF ACCEPT_ENCODING_LC \notin DOMAIN request_headers THEN "None"
    ELSE LET v == request_headers[ACCEPT_ENCODING_LC]
             commas == {i \in 1..Len(v) : v[i] = ","}
             starts == {1} \cup {i + 1 : i \in commas}
             PieceAt(a) ==
                LET after == {c \in commas : c >= a}
                    e == IF after = {} THEN Len(v)
                         ELSE (CHOOSE c \in after : \A d \in after : c <= d) - 1
                IN  to_lowercase(trim(SubSeq(v, a, e)))
             hits == {a \in starts : PieceAt(a) \in {GZIP_LC, DEFLATE_LC}}
         IN  IF hits = {} THEN "None"
             ELSE IF PieceAt(CHOOSE a \in hits : \A b \in hits : a <= b) = GZIP_LC THEN "Gzip"
             ELSE "Deflate"

C5_FirstListedEncodingWins ==
    spc \in {"set_headers", "send_headers", "send_body", "done"} => content_encoding = Negotiated

C5_Witness ==
    /\ spc = "done"
    /\ content_encoding = "Deflate"
    /\ ACCEPT_ENCODING_LC \in DOMAIN request_headers
    /\ contains(request_headers[ACCEPT_ENCODING_LC], <<",", " ">> \o GZIP_LC)

(***************************************************************************)
(* C8: with gzip or deflate negotiated and a non-empty body, the response  *)
(* sent carries Content-Encoding with the lowercase name of the encoding,  *)
(* Content-Length with the length of the compressed body, and the          *)
(* compressed bytes as its body; with no body or no encoding the body is   *)
(* the handler's and no Content-Encoding header is sent.                   *)
(***************************************************************************)
C8_CompressedBodyIsFramed ==
    spc = "done" =>
        LET body == handler_response.body IN
        IF content_encoding \in {"Gzip", "Deflate"} /\ body.kind # "None" /\ body.bytes # <<>>
        THEN LET packed == IF content_encoding = "Gzip"
                           THEN compress_gzip(body.bytes, TRUE).data
                           ELSE compress_deflate(body.bytes, TRUE).data
             IN  /\ HeaderValues(CONTENT_ENCODING)
                        = {IF content_encoding = "Gzip" THEN GZIP_LC ELSE DEFLATE_LC}
                 /\ HeaderValues(CONTENT_LENGTH) = {to_string(Len(packed))}
                 /\ Len(packed) # Len(body.bytes)
                 /\ BodySent = packed
        ELSE (body.kind = "None" \/ content_encoding = "None") =>
                /\ response.body = body
                /\ BodySent = body.bytes
                /\ BodyWrites = {} <=> body.kind = "None"
                /\ HeaderValues(CONTENT_ENCODING) = {}

C8_Witness ==
    /\ spc = "done"
    /\ content_encoding = "Gzip"
    /\ handler_response.body.kind = "Text"
    /\ handler_response.body.bytes # <<>>
    /\ BodyWrites # {}
    /\ HeaderValues(CONTENT_ENCODING) # {}

(***************************************************************************)
(* C10: a response whose handler set no Content-Type is sent with          *)
(* Content-Type: text/plain, whatever its body and whether or not the body *)
(* was compressed; a Content-Type the handler set is sent unchanged.       *)
(***************************************************************************)
C10_ContentTypeDefaultsToTextPlain ==
    spc = "done" =>
        HeaderValues(CONTENT_TYPE) =
            {IF CONTENT_TYPE \in DOMAIN handler_response.headers
             THEN handler_response.headers[CONTENT_TYPE]
             ELSE TEXT_PLAIN}

(***************************************************************************)
(* C4: whenever request parsing fails, the connection handler writes a     *)
(* 400 Bad Request response with no body and closes the connection.        *)
(***************************************************************************)
C4_ParseFailureAnswers400 ==
    \A c \in Conns :
        (conns[c].state = "closed" /\ conns[c].parse_failed /\ ~conns[c].panicked) =>
            /\ conns[c].wire[1] = Written("status_line", status_line(BAD_REQUEST))
            /\ \A i \in 1..Len(conns[c].wire) : conns[c].wire[i].part # "body"

(***************************************************************************)
(* C6: every accepted connection is parsed exactly once and gets exactly   *)
(* one response, one status line, before it is closed: nothing is written  *)
(* before the request is parsed, no response is written twice, no second   *)
(* request is read and no connection is closed without a response attempt. *)
(***************************************************************************)
StatusLines(w) == {i \in 1..Len(w) : w[i].part = "status_line"}

C6_OneParseOneResponse ==
    \A c \in Conns :
        LET k == conns[c] IN
        /\ k.state \in {"none", "accepted"} => k.parses = 0 /\ k.sends = 0 /\ k.wire = <<>>
        /\ k.state = "parsed" => k.parses = 1 /\ k.sends = 0 /\ k.wire = <<>>
        /\ k.state = "closed" =>
            /\ k.parses = 1
            /\ k.sends = 1
            /\ StatusLines(k.wire) = {1}
            /\ ~k.panicked => \A i \in 1..Len(k.wire) : k.wire[i].complete

C6_Witness ==
    \E c \in Conns :
        /\ conns[c].state = "closed"
        /\ starts_with(conns[c].request.path, FILES_PREFIX)
        /\ FILES_DIRECTORY.value.some
        /\ conns[c].wire[1] = Written("status_line", status_line(NOT_FOUND))
        /\ ~conns[c].panicked

(***************************************************************************)
(* C7: the threads of the connections share no mutable state:              *)
(* FILES_DIRECTORY is set before any connection is accepted and never      *)
(* changes afterwards, a step of one thread changes nothing of any other   *)
(* connection, and a panic in one thread leaves the accept loop running;   *)
(* so every accepted connection is parsed and answered, whatever happens   *)
(* to the others.                                                          *)
(***************************************************************************)
C7_WorkersAreIndependent ==
    /\ [][ /\ FILES_DIRECTORY.set => FILES_DIRECTORY' = FILES_DIRECTORY
           /\ main_pc = "listening" => main_pc' = "listening"
           /\ \A c \in Conns : conns[c].state # "none" => FILES_DIRECTORY.set
           /\ \A c, d \in Conns : (c # d /\ conns'[c] # conns[c]) => conns'[d] = conns[d]
         ]_vars
    /\ \A c \in Conns :
        (conns[c].state = "accepted") ~>
            (conns[c].state = "closed" /\ conns[c].parses = 1 /\ conns[c].sends = 1)

C7_Witness ==
    \E c, d \in Conns :
        /\ c # d
        /\ conns[c].state = "closed" /\ conns[c].panicked
        /\ conns[d].state = "accepted"
        /\ main_pc = "listening"

(***************************************************************************)
(* C11: send writes the status line, the header lines, the empty line and  *)
(* the body in this order, each only after the write before it succeeded,  *)
(* and nothing after the first failure.  The status line is the handler's  *)
(* and is written before the encoding is chosen and the body compressed:   *)
(* when the compression fails, send ends in an error with exactly the      *)
(* complete status line written, and no header line, no empty line and no  *)
(* body byte.                                                              *)
(***************************************************************************)
SendOrder == <<"status_line", "headers", "empty_line", "body">>

StatusLineSent == <<Written("status_line", status_line(handler_response.status))>>

AllComplete(w) == \A i \in 1..Len(w) : w[i].complete

IsPrefix(w, v) == Len(w) <= Len(v) /\ SubSeq(v, 1, Len(w)) = w

WritesInOrder ==
    /\ Len(wire) <= Len(SendOrder)
    /\ \A i \in 1..Len(wire) :
        /\ wire[i].part = SendOrder[i]
        /\ i < Len(wire) => wire[i].complete
        /\ wire[i].part = "status_line" => wire[i].bytes = status_line(handler_response.status)
        /\ wire[i].part = "headers" => wire[i].lines = header_lines(response.headers)
        /\ wire[i].part = "empty_line" => wire[i].bytes = CRLF
        /\ wire[i].part = "body" =>
                response.body.kind # "None" /\ wire[i].bytes = as_bytes(response.body)
    /\ ~AllComplete(wire) => spc = "err"
    /\ spc = "status_line" =>
            wire = <<>> /\ response = handler_response /\ content_encoding = "None"
    /\ spc \in {"compress", "set_headers", "send_headers"} => wire = StatusLineSent
    /\ spc = "send_body" => Len(wire) = 3
    /\ spc = "done" => Len(wire) = (IF response.body.kind = "None" THEN 3 ELSE 4)

C11_WritesInOrderUntilFirstFailure ==
    /\ [](spc # "idle" => WritesInOrder)
    /\ [][ /\ IsPrefix(wire, wire')
           /\ wire' # wire => AllComplete(wire) /\ spc # "err"
           /\ spc = "err" => wire' = wire
           /\ (spc = "compress" /\ spc' = "err") =>
                /\ wire' = StatusLineSent
                /\ response'.body = handler_response.body
                /\ \A i \in 1..Len(wire') :
                       wire'[i].part \notin {"headers", "empty_line", "body"}
         ]_vars

C11_Witness ==
    /\ spc = "err"
    /\ wire = StatusLineSent
    /\ handler_response.status = OK
    /\ handler_response.body = Text(<<"h", "i">>)
    /\ determine_content_encoding(request_headers) = "Gzip"

====
